---- MODULE Spec2Model ----
(***************************************************************************)
(* Model of src/index.js: the Access -> PostgreSQL synchronisation server. *)
(* One process-wide scheduler flag and timer handle, one process-wide map  *)
(* of previous table snapshots, and any number of passes (on-demand        *)
(* POST /api/migrate handlers and cron callbacks) that run concurrently on *)
(* the single node.js event loop: the code between two awaits is atomic,   *)
(* and every await of a database call is a point where another pass, a     *)
(* stop request or a change of the source may interleave.                  *)
(***************************************************************************)
EXTENDS Integers, Sequences, FiniteSets, TLC

\* ---------------------------------------------------------------- bounds
MaxPasses == 2      \* passes (handlers / cron callbacks) in flight at once
MaxRequests == 2    \* POST /api/migrate requests received
MaxChanges == 1     \* changes of the source database by its users
MaxRows == 2        \* rows of a source table
MaxKey == 2         \* distinct identity-key values

Slots == 1..MaxPasses

\* ------------------------------------------------------------------ data
\* A JavaScript value read over ODBC: null, a number or a string.
Null == [t |-> "null", v |-> ""]
Num(s) == [t |-> "num", v |-> s]
Str(s) == [t |-> "str", v |-> s]
DigitStr == <<"1", "2", "3", "4">>

\* A row is <<value of the first column, value of the second column>>; the
\* first column is the identity key (Object.keys(record)[0]).
IdValues == {Num(DigitStr[i]) : i \in 1..MaxKey}
NameValues == {Str("a"), Null}
Rows == IdValues \X NameValues
KeyOf(rec) == rec[1]

KeysOf(recs) == {KeyOf(recs[i]) : i \in DOMAIN recs}

\* accessDb.tables(): the table names of the source, as character sequences.
TableA == <<"A">>
TableTmp == <<"~", "T">>
TableB == <<"B">>
Tables == <<TableA, TableTmp, TableB>>
TableNames == {Tables[i] : i \in DOMAIN Tables}

startsWithTilde(tableName) == Len(tableName) > 0 /\ tableName[1] = "~"

\* The first n rows of a source table when the server starts.
FirstRows(n) == [i \in 1..n |-> <<Num(DigitStr[i]), Str("a")>>]

VARIABLES
    schedulerRunning,   \* let schedulerRunning
    cronJob,            \* let cronJob: 0 is null, else the id of a cron task
    activeTimers,       \* the cron tasks created and not stopped
    timerSeq,           \* cron tasks created so far
    previousStates,     \* let previousStates: table name -> snapshot (<<>> when absent)
    source,             \* the rows of each source table
    destExists,         \* destination: the table exists
    destRows,           \* destination: the rows of the table, as the upserts wrote them
    pass,               \* the passes in flight, one record per slot
    requests,           \* POST /api/migrate requests received
    changes,            \* source changes so far
    lastStop,           \* the answer to the latest stop request, kept until the next
                        \* pass begins ("" when there is none)
    normalized,         \* a column name followed by the results of the successive
                        \* calls of normalizeColumnName on it (<<>> in the server)
    upsertValues        \* a record followed, once line 139 has been evaluated for
                        \* it, by the values of its upsert (<<>> in the server)

vars == <<schedulerRunning, cronJob, activeTimers, timerSeq, previousStates,
          source, destExists, destRows, pass, requests, changes, lastStop,
          normalized, upsertValues>>

\* ------------------------------------------------------- pure functions
\* JSON.stringify of a snapshot, as migrateTable uses it to compare snapshots.
jsonValue(val) ==
    CASE val.t = "null" -> "null"
      [] val.t = "num" -> val.v
      [] OTHER -> "\"" \o val.v \o "\""

jsonRecord(rec) ==
    "{\"ID\":" \o jsonValue(rec[1]) \o ",\"Full Name\":" \o jsonValue(rec[2]) \o "}"

RECURSIVE jsonJoin(_)
jsonJoin(recs) ==
    IF Len(recs) = 0 THEN ""
    ELSE IF Len(recs) = 1 THEN jsonRecord(recs[1])
    ELSE jsonRecord(recs[1]) \o "," \o jsonJoin(Tail(recs))

JSONstringify(recs) == "[" \o jsonJoin(recs) \o "]"

\* A comparison of the two arrays themselves, which are never the same object,
\* in place of the comparison of their contents.
hasChangesByIdentity(currentRecords, previousRecords) == TRUE

\* migrateTable, lines 184-186.
hasChanges(currentRecords, previousRecords) ==
    \/ Len(currentRecords) # Len(previousRecords)
    \/ JSONstringify(currentRecords) # JSONstringify(previousRecords)

\* syncDataWithPostgres, line 125: new Map(previousRecords.map(...)); a later
\* entry with the same key replaces an earlier one.
previousKeysHas(previousRecords, k) == k \in KeysOf(previousRecords)

previousKeysGet(previousRecords, k) ==
    LET last == CHOOSE i \in DOMAIN previousRecords :
                    /\ KeyOf(previousRecords[i]) = k
                    /\ \A j \in DOMAIN previousRecords :
                           KeyOf(previousRecords[j]) = k => j <= i
    IN previousRecords[last]

\* syncDataWithPostgres, lines 128-129.
recordsToDelete(previousRecords, currentRecords) ==
    LET keep(rec) == KeyOf(rec) \notin KeysOf(currentRecords)
    IN SelectSeq(previousRecords, keep)

\* syncDataWithPostgres, lines 144-162: what the loop does with one record.
classify(previousRecords, record) ==
    IF previousKeysHas(previousRecords, KeyOf(record))
    THEN LET previousRecord == previousKeysGet(previousRecords, KeyOf(record))
         IN IF \E c \in DOMAIN record : record[c] # previousRecord[c]
            THEN "update" ELSE "none"
    ELSE "insert"

deleteStatement(rec) == [op |-> "delete", key |-> KeyOf(rec), row |-> rec, cls |-> "delete"]
upsertStatement(rec, cls) == [op |-> "upsert", key |-> KeyOf(rec), row |-> rec, cls |-> cls]

RECURSIVE upsertsOf(_, _)
upsertsOf(previousRecords, recs) ==
    IF Len(recs) = 0 THEN <<>>
    ELSE LET cls == classify(previousRecords, recs[1])
         IN (IF cls = "none" THEN <<>> ELSE <<upsertStatement(recs[1], cls)>>)
            \o upsertsOf(previousRecords, Tail(recs))

RECURSIVE deletesOf(_)
deletesOf(recs) ==
    IF Len(recs) = 0 THEN <<>>
    ELSE <<deleteStatement(recs[1])>> \o deletesOf(Tail(recs))

\* The statements syncDataWithPostgres sends when none of them fails, in the
\* order it sends them: the deletes (lines 132-135), then the upserts (138-163).
statementsOf(previousRecords, currentRecords) ==
    deletesOf(recordsToDelete(previousRecords, currentRecords))
        \o upsertsOf(previousRecords, currentRecords)

\* What an upsert writes for a column: the SQL keyword NULL, or a quoted text.
SqlNull == [t |-> "NULL", v |-> ""]
SqlText(s) == [t |-> "text", v |-> s]

\* value.toString(), line 139, of a number or a string.
toString(value) == value.v

\* Line 139, value ? ... : ...: null, the number 0 and the empty string are
\* falsy, every other number and string is truthy.
truthy(value) ==
    CASE value.t = "null" -> FALSE
      [] value.t = "num" -> value.v # "0"
      [] OTHER -> value.v # ""

\* Line 139: what the upsert writes for one value.
sqlValue(value) == IF truthy(value) THEN SqlText(toString(value)) ELSE SqlNull

\* Line 139: Object.values(record).map(...), the values of the upsert.
valuesOf(record) == [i \in DOMAIN record |-> sqlValue(record[i])]

\* Line 133: the key in the WHERE clause of a delete, '${...}', is the text of
\* the value whatever the value.
sqlKey(value) == SqlText(toString(value))

\* ----------------------------------------------------------- the passes
\* A slot that holds no pass. A pass in flight holds its kind ("migrate" for a
\* POST /api/migrate handler, "tick" for a cron callback), the await it is
\* suspended at (pc), the index of the table of its loop (ti), the locals of
\* migrateTable and syncDataWithPostgres (cur: currentRecords; plan and pos: the
\* statements of the batch and the one in flight) and the connections it holds.
\* note is history: "unchanged" after a migrateTable call that found no
\* change, kept until the next step of the slot, and, once the pass has ended
\* and until the first await of the next pass of the slot answers, how it
\* ended: "already running" after a handler that found the scheduler running
\* at line 222, "500" after a handler that answered 500, "completed" after a
\* cron callback that emitted its completion (line 261), "rejected" after a
\* cron callback whose promise was rejected; "" after a handler that started
\* the scheduler and after a cron callback that returned early.
IdlePass ==
    [kind |-> "none", pc |-> "idle", ti |-> 0, cur |-> <<>>, plan |-> <<>>,
     pos |-> 0, pg |-> FALSE, acc |-> FALSE, note |-> ""]

InFlight(p) == pass[p].pc # "idle"

\* The slot a new pass takes: the lowest one that holds no pass.
FreeSlot(p) == ~InFlight(p) /\ \A q \in Slots : q < p => InFlight(q)

\* A pass ends: by a return, or by an exception, which the handler of
\* POST /api/migrate catches (lines 228-231) and the cron callback lets escape
\* as a rejected promise. Its locals are gone.
endPass(r, note) == [IdlePass EXCEPT !.note = note]

\* How a pass ends when a call it awaits outside any try of its own fails: the
\* handler is one try (lines 202-231) and answers 500; the cron callback
\* (lines 236-262) has no try, and the promise it returned is rejected.
thrown(r) == endPass(r, IF r.kind = "migrate" THEN "500" ELSE "rejected")

\* A loop that goes on to the table after the next one.
afterTableSkipsOne(r, note) ==
    IF r.ti + 1 < Len(Tables)
    THEN [r EXCEPT !.ti = r.ti + 2, !.pc = "fetch", !.cur = <<>>, !.plan = <<>>,
                   !.pos = 0, !.note = note]
    ELSE [r EXCEPT !.pc = "close", !.cur = <<>>, !.plan = <<>>, !.pos = 0,
                   !.note = note]

\* The for loops of lines 215-217 and 253-255: the next table, or the close.
afterTable(r, note) ==
    IF r.ti < Len(Tables)
    THEN [r EXCEPT !.ti = r.ti + 1, !.pc = "fetch", !.cur = <<>>, !.plan = <<>>,
                   !.pos = 0, !.note = note]
    ELSE [r EXCEPT !.pc = "close", !.cur = <<>>, !.plan = <<>>, !.pos = 0,
                   !.note = note]

\* The state when the server has started (lines 15, 16 and 32), every source
\* table, the system table too, holding n rows and the destination database
\* being empty.
InitWith(n) ==
    /\ schedulerRunning = FALSE
    /\ cronJob = 0
    /\ activeTimers = {}
    /\ timerSeq = 0
    /\ previousStates = [t \in TableNames |-> <<>>]
    /\ source = [t \in TableNames |-> FirstRows(n)]
    /\ destExists = [t \in TableNames |-> FALSE]
    /\ destRows = [t \in TableNames |-> {}]
    /\ pass = [p \in Slots |-> IdlePass]
    /\ requests = 0
    /\ changes = 0
    /\ lastStop = ""

\* The server calls normalizeColumnName on the column names of its fixed
\* tables only; the chain of calls is empty.
Init == InitWith(1) /\ normalized = <<>> /\ upsertValues = <<>>

InitSeq == InitWith(MaxRows) /\ normalized = <<>> /\ upsertValues = <<>>

\* ------------------------------------------------------------ the actions
\* POST /api/migrate, lines 201-206: the handler starts and awaits
\* connectPostgres.
migrateRequest(p) ==
    /\ FreeSlot(p)
    /\ requests < MaxRequests
    /\ requests' = requests + 1
    /\ pass' = [pass EXCEPT ![p] = [IdlePass EXCEPT !.kind = "migrate", !.pc = "connectPostgres",
                                         !.note = pass[p].note]]
    /\ lastStop' = ""
    /\ UNCHANGED <<schedulerRunning, cronJob, activeTimers, timerSeq, previousStates,
                   source, destExists, destRows, changes>>
    /\ UNCHANGED <<normalized, upsertValues>>

\* A cron task that is not fired again once a callback of it was rejected.
tickGuardUntilRejected ==
    activeTimers # {} /\ \A p \in Slots : pass[p].note # "rejected"

\* A cron task fires its callback while it is created and not stopped;
\* node-cron does not wait for the previous callback to end.
tickGuard == activeTimers # {}

\* The cron callback, lines 236-241: it starts and awaits connectPostgres.
tick(p) ==
    /\ FreeSlot(p)
    /\ tickGuard
    /\ pass' = [pass EXCEPT ![p] = [IdlePass EXCEPT !.kind = "tick", !.pc = "connectPostgres",
                                         !.note = pass[p].note]]
    /\ lastStop' = ""
    /\ UNCHANGED <<schedulerRunning, cronJob, activeTimers, timerSeq, previousStates,
                   source, destExists, destRows, requests, changes>>
    /\ UNCHANGED <<normalized, upsertValues>>

\* connectPostgres, lines 53-64, and lines 207 and 242.
connectPostgres(p, ok) ==
    LET r == pass[p] IN
    /\ r.pc = "connectPostgres"
    /\ pass' = [pass EXCEPT ![p] =
          IF ok THEN [r EXCEPT !.pg = TRUE, !.pc = "connectAccess", !.note = ""]
          ELSE endPass(r, IF r.kind = "migrate" THEN "500" ELSE "")]
    /\ UNCHANGED <<schedulerRunning, cronJob, activeTimers, timerSeq, previousStates,
                   source, destExists, destRows, requests, changes, lastStop>>
    /\ UNCHANGED <<normalized, upsertValues>>

\* connectAccess, lines 67-78, and lines 210 and 245-248.
connectAccess(p, ok) ==
    LET r == pass[p] IN
    /\ r.pc = "connectAccess"
    /\ pass' = [pass EXCEPT ![p] =
          IF ok THEN [r EXCEPT !.acc = TRUE, !.pc = "tables"]
          ELSE IF r.kind = "migrate" THEN endPass(r, "500")
          ELSE [r EXCEPT !.pc = "endOnly"]]
    /\ UNCHANGED <<schedulerRunning, cronJob, activeTimers, timerSeq, previousStates,
                   source, destExists, destRows, requests, changes, lastStop>>
    /\ UNCHANGED <<normalized, upsertValues>>

\* The cron callback, lines 246-247: await pgClient.end(); return.
endOnly(p, ok) ==
    LET r == pass[p] IN
    /\ r.pc = "endOnly"
    /\ pass' = [pass EXCEPT ![p] = IF ok THEN endPass(r, "") ELSE thrown(r)]
    /\ UNCHANGED <<schedulerRunning, cronJob, activeTimers, timerSeq, previousStates,
                   source, destExists, destRows, requests, changes, lastStop>>
    /\ UNCHANGED <<normalized, upsertValues>>

\* accessDb.tables(), lines 212-213 and 250-251, and the entry of the loop.
tables(p, ok) ==
    LET r == pass[p] IN
    /\ r.pc = "tables"
    /\ pass' = [pass EXCEPT ![p] = IF ok THEN afterTable(r, "") ELSE thrown(r)]
    /\ UNCHANGED <<schedulerRunning, cronJob, activeTimers, timerSeq, previousStates,
                   source, destExists, destRows, requests, changes, lastStop>>
    /\ UNCHANGED <<normalized, upsertValues>>

\* The fetch without the test of line 82: every table is queried.
fetchEveryTable(tableName, ok) == IF ok THEN source[tableName] ELSE <<>>

\* fetchDataFromAccess, lines 81-94.
fetchDataFromAccess(tableName, ok) ==
    IF startsWithTilde(tableName) THEN <<>>
    ELSE IF ok THEN source[tableName] ELSE <<>>

\* ensurePostgresTable, lines 103-105: Object.keys(sampleRecord) throws a
\* TypeError when sampleRecord, currentRecords[0], is undefined.
ensureThrows(currentRecords) == Len(currentRecords) = 0

\* migrateTable, lines 181-190 and 193-197: the fetch answers, the stored
\* snapshot is read and compared; an unchanged table is stored at once (line
\* 197), a changed one has its create-table statement sent (line 108), and a
\* changed table that is now empty throws out of migrateTable.
migrateTable(p, ok) ==
    LET r == pass[p]
        tableName == Tables[r.ti]
        currentRecords == fetchDataFromAccess(tableName, ok)
        previousRecords == previousStates[tableName]
    IN
    /\ r.pc = "fetch"
    /\ startsWithTilde(tableName) => ok
    /\ IF ~hasChanges(currentRecords, previousRecords)
       THEN /\ previousStates' = [previousStates EXCEPT ![tableName] = currentRecords]
            /\ pass' = [pass EXCEPT ![p] = afterTable(r, "unchanged")]
       ELSE IF ensureThrows(currentRecords)
       THEN /\ pass' = [pass EXCEPT ![p] = thrown(r)]
            /\ UNCHANGED previousStates
       ELSE /\ pass' = [pass EXCEPT ![p] =
                   [r EXCEPT !.pc = "ensure", !.cur = currentRecords, !.note = ""]]
            /\ UNCHANGED previousStates
    /\ UNCHANGED <<schedulerRunning, cronJob, activeTimers, timerSeq,
                   source, destExists, destRows, requests, changes, lastStop>>
    /\ UNCHANGED <<normalized, upsertValues>>

\* ensurePostgresTable without the try of lines 107-111.
ensureRejectsUncaught(ok) == ~ok

\* ensurePostgresTable, lines 107-111: the create-table query is awaited
\* inside a try whose catch only logs, so whatever the answer the call does
\* not reject.
ensureRejects(ok) == FALSE

\* ensurePostgresTable, lines 107-111, answers (a failure is caught), and
\* syncDataWithPostgres runs up to its first statement, lines 116-134: it reads
\* the stored snapshot again and computes what to send. With nothing to send
\* the snapshot is stored (lines 165 and 197).
ensurePostgresTable(p, ok) ==
    LET r == pass[p]
        tableName == Tables[r.ti]
        previousRecords == previousStates[tableName]
        plan == statementsOf(previousRecords, r.cur)
    IN
    /\ r.pc = "ensure"
    /\ destExists' = IF ok THEN [destExists EXCEPT ![tableName] = TRUE] ELSE destExists
    /\ IF ensureRejects(ok)
       THEN /\ pass' = [pass EXCEPT ![p] = thrown(r)]
            /\ UNCHANGED previousStates
       ELSE IF plan = <<>>
       THEN /\ previousStates' = [previousStates EXCEPT ![tableName] = r.cur]
            /\ pass' = [pass EXCEPT ![p] = afterTable(r, "")]
       ELSE /\ pass' = [pass EXCEPT ![p] = [r EXCEPT !.pc = "apply", !.plan = plan, !.pos = 1]]
            /\ UNCHANGED previousStates
    /\ UNCHANGED <<schedulerRunning, cronJob, activeTimers, timerSeq,
                   source, destRows, requests, changes, lastStop>>
    /\ UNCHANGED <<normalized, upsertValues>>

\* What a statement that succeeds does to the rows of the destination table,
\* which hold what the upserts wrote: a delete removes the row whose key is the
\* text of the key (line 133); an upsert writes the values of line 139, in
\* place of the row with the same key if there is one (lines 140-142).
applyStatement(rows, st) ==
    IF st.op = "delete"
    THEN {x \in rows : KeyOf(x) # sqlKey(st.key)}
    ELSE {x \in rows : KeyOf(x) # sqlValue(st.key)} \cup {valuesOf(st.row)}

\* syncDataWithPostgres, lines 132-163: whether the loops go on to the next
\* statement after the one at pos answered; a statement that fails throws to
\* the catch of line 174, outside the loops.
batchContinues(plan, pos, ok) == ok /\ pos < Len(plan)

\* syncDataWithPostgres, lines 132-165 and 174-176, and migrateTable, line 197:
\* the statement in flight answers; the next one is sent, or the batch ends and
\* the snapshot is stored. A statement on a table that does not exist fails.
syncDataWithPostgres(p, ok) ==
    LET r == pass[p]
        tableName == Tables[r.ti]
        st == r.plan[r.pos]
    IN
    /\ r.pc = "apply"
    /\ ok => destExists[tableName]
    /\ destRows' = IF ok THEN [destRows EXCEPT ![tableName] = applyStatement(@, st)]
                   ELSE destRows
    /\ IF batchContinues(r.plan, r.pos, ok)
       THEN /\ pass' = [pass EXCEPT ![p] = [r EXCEPT !.pos = r.pos + 1]]
            /\ UNCHANGED previousStates
       ELSE /\ previousStates' = [previousStates EXCEPT ![tableName] = r.cur]
            /\ pass' = [pass EXCEPT ![p] = afterTable(r, "")]
    /\ UNCHANGED <<schedulerRunning, cronJob, activeTimers, timerSeq,
                   source, destExists, requests, changes, lastStop>>
    /\ UNCHANGED <<normalized, upsertValues>>

\* await accessDb.close(), lines 219 and 257.
closeAccess(p, ok) ==
    LET r == pass[p] IN
    /\ r.pc = "close"
    /\ pass' = [pass EXCEPT ![p] =
          IF ok THEN [r EXCEPT !.acc = FALSE, !.pc = "end", !.note = ""] ELSE thrown(r)]
    /\ UNCHANGED <<schedulerRunning, cronJob, activeTimers, timerSeq, previousStates,
                   source, destExists, destRows, requests, changes, lastStop>>
    /\ UNCHANGED <<normalized, upsertValues>>

\* scheduleMigration, lines 235-265, called at line 224 after the flag is set
\* at line 223: cron.schedule creates a task and cronJob refers to it.
scheduleMigration ==
    /\ schedulerRunning' = TRUE
    /\ timerSeq' = timerSeq + 1
    /\ cronJob' = timerSeq + 1
    /\ activeTimers' = activeTimers \cup {timerSeq + 1}

\* The handler without the test of line 222.
startGuardMissing == TRUE

\* Line 222: if (!schedulerRunning).
startGuard == ~schedulerRunning

\* A handler that starts the scheduler however pgClient.end() answered, as if
\* lines 222-225 were in a finally.
reachesStartAlways(r, ok) == r.kind = "migrate"

\* Lines 220-222: the handler reaches the test of line 222 when pgClient.end()
\* has resolved; the cron callback never starts a scheduler.
reachesStart(r, ok) == ok /\ r.kind = "migrate"

\* await pgClient.end(), lines 220 and 258, and the end of the pass: lines
\* 222-227 of the handler, lines 260-261 of the cron callback.
endPostgres(p, ok) ==
    LET r == pass[p] IN
    /\ r.pc = "end"
    /\ pass' = [pass EXCEPT ![p] =
          IF ~ok THEN thrown(r)
          ELSE IF r.kind = "tick" THEN endPass(r, "completed")
          ELSE endPass(r, IF startGuard THEN "" ELSE "already running")]
    /\ IF reachesStart(r, ok) /\ startGuard
       THEN scheduleMigration
       ELSE UNCHANGED <<schedulerRunning, cronJob, activeTimers, timerSeq>>
    /\ UNCHANGED <<previousStates, source, destExists, destRows, requests, changes, lastStop>>
    /\ UNCHANGED <<normalized, upsertValues>>

\* The stop without cronJob.stop(), line 271.
stopRunningKeepsTimer ==
    /\ activeTimers' = activeTimers
    /\ cronJob' = 0
    /\ schedulerRunning' = FALSE
    /\ previousStates' = [t \in TableNames |-> <<>>]
    /\ lastStop' = "stopped"

\* The stop without the assignment of line 273.
stopRunningKeepsFlag ==
    /\ activeTimers' = activeTimers \ {cronJob}
    /\ cronJob' = 0
    /\ schedulerRunning' = schedulerRunning
    /\ previousStates' = [t \in TableNames |-> <<>>]
    /\ lastStop' = "stopped"

\* POST /api/stop-scheduler, lines 270-276: a scheduler is running.
stopRunning ==
    /\ activeTimers' = activeTimers \ {cronJob}
    /\ cronJob' = 0
    /\ schedulerRunning' = FALSE
    /\ previousStates' = [t \in TableNames |-> <<>>]
    /\ lastStop' = "stopped"

\* The stop that clears the snapshots (line 274) whether or not a scheduler
\* is running.
stopIdleClears ==
    /\ lastStop' = "no scheduler"
    /\ previousStates' = [t \in TableNames |-> <<>>]
    /\ UNCHANGED <<schedulerRunning, cronJob, activeTimers>>

\* POST /api/stop-scheduler, lines 277-280: no scheduler is running.
stopIdle ==
    /\ lastStop' = "no scheduler"
    /\ UNCHANGED <<schedulerRunning, cronJob, activeTimers, previousStates>>

\* POST /api/stop-scheduler, lines 268-285.
stopScheduler ==
    /\ IF cronJob # 0 THEN stopRunning ELSE stopIdle
    /\ UNCHANGED <<timerSeq, source, destExists, destRows, pass, requests, changes>>
    /\ UNCHANGED <<normalized, upsertValues>>

\* The edits a user of the source database can make to a table in one step: a
\* row deleted, the second column of a row changed, a row with a new key added.
removeAt(rows, i) == [j \in 1..(Len(rows) - 1) |-> IF j < i THEN rows[j] ELSE rows[j + 1]]

edits(rows) ==
    {removeAt(rows, i) : i \in DOMAIN rows}
    \cup {[rows EXCEPT ![i] = <<rows[i][1], v>>] : i \in DOMAIN rows, v \in NameValues}
    \cup {Append(rows, rec) : rec \in {x \in Rows : Len(rows) < MaxRows /\ KeyOf(x) \notin KeysOf(rows)}}

sourceChange(tableName, rows) ==
    /\ changes < MaxChanges
    /\ ~startsWithTilde(tableName)
    /\ rows \in edits(source[tableName]) \ {source[tableName]}
    /\ source' = [source EXCEPT ![tableName] = rows]
    /\ changes' = changes + 1
    /\ UNCHANGED <<schedulerRunning, cronJob, activeTimers, timerSeq, previousStates,
                   destExists, destRows, pass, requests, lastStop>>
    /\ UNCHANGED <<normalized, upsertValues>>

Next ==
    \/ \E p \in Slots : migrateRequest(p)
    \/ \E p \in Slots : tick(p)
    \/ \E p \in Slots, ok \in BOOLEAN : connectPostgres(p, ok)
    \/ \E p \in Slots, ok \in BOOLEAN : connectAccess(p, ok)
    \/ \E p \in Slots, ok \in BOOLEAN : endOnly(p, ok)
    \/ \E p \in Slots, ok \in BOOLEAN : tables(p, ok)
    \/ \E p \in Slots, ok \in BOOLEAN : migrateTable(p, ok)
    \/ \E p \in Slots, ok \in BOOLEAN : ensurePostgresTable(p, ok)
    \/ \E p \in Slots, ok \in BOOLEAN : syncDataWithPostgres(p, ok)
    \/ \E p \in Slots, ok \in BOOLEAN : closeAccess(p, ok)
    \/ \E p \in Slots, ok \in BOOLEAN : endPostgres(p, ok)
    \/ stopScheduler

\* The server with its passes overlapping freely, over a source that does not
\* change.
Spec == Init /\ [][Next]_vars

\* No pass is in flight.
Quiet == \A p \in Slots : ~InFlight(p)

NextSeq ==
    \/ \E p \in Slots : Quiet /\ migrateRequest(p)
    \/ \E p \in Slots : Quiet /\ tick(p)
    \/ \E p \in Slots, ok \in BOOLEAN : connectPostgres(p, ok)
    \/ \E p \in Slots, ok \in BOOLEAN : connectAccess(p, ok)
    \/ \E p \in Slots, ok \in BOOLEAN : endOnly(p, ok)
    \/ \E p \in Slots, ok \in BOOLEAN : tables(p, ok)
    \/ \E p \in Slots, ok \in BOOLEAN : migrateTable(p, ok)
    \/ \E p \in Slots, ok \in BOOLEAN : ensurePostgresTable(p, ok)
    \/ \E p \in Slots, ok \in BOOLEAN : syncDataWithPostgres(p, ok)
    \/ \E p \in Slots, ok \in BOOLEAN : closeAccess(p, ok)
    \/ \E p \in Slots, ok \in BOOLEAN : endPostgres(p, ok)
    \/ stopScheduler
    \/ \E t \in TableNames : \E rows \in edits(source[t]) : sourceChange(t, rows)

\* The server with one pass at a time (a request or a tick arrives only when
\* no pass is in flight), over larger tables that the users of the source
\* change between and during the passes.
SpecSeq == InitSeq /\ [][NextSeq]_vars

\* ------------------------------------------------- normalizeColumnName
MaxLen == 3         \* characters of a column name
MaxCalls == 2       \* successive calls of normalizeColumnName

\* Characters of a column name: a lower-case and an upper-case letter, a
\* digit, the underscore, two white-space characters and a punctuation mark.
Chars == {"a", "Z", "1", "_", " ", "\t", "-"}

\* The characters \s matches.
isSpace(c) == c \in {" ", "\t"}

\* The characters [a-zA-Z0-9_] matches.
isWord(c) == c \in {"a", "Z", "1", "_"}

ColumnNames == UNION {[1..n -> Chars] : n \in 0..MaxLen}

\* The string after the white-space run it begins with.
RECURSIVE skipSpaces(_)
skipSpaces(str) ==
    IF Len(str) > 0 /\ isSpace(Head(str)) THEN skipSpaces(Tail(str)) ELSE str

\* Line 98: .replace(/\s+/g, "_"), every maximal run of white space replaced
\* by one underscore.
RECURSIVE replaceSpaceRuns(_)
replaceSpaceRuns(str) ==
    IF Len(str) = 0 THEN <<>>
    ELSE IF isSpace(Head(str)) THEN <<"_">> \o replaceSpaceRuns(skipSpaces(str))
    ELSE <<Head(str)>> \o replaceSpaceRuns(Tail(str))

\* The replacement without the g flag: only the first match is removed.
RECURSIVE removeFirstNonWord(_)
removeFirstNonWord(str) ==
    IF Len(str) = 0 THEN <<>>
    ELSE IF ~isWord(Head(str)) THEN Tail(str)
    ELSE <<Head(str)>> \o removeFirstNonWord(Tail(str))

\* Line 98: .replace(/[^a-zA-Z0-9_]/g, ""), every other character removed.
removeNonWord(str) == SelectSeq(str, isWord)

\* normalizeColumnName, lines 97-99.
normalizeColumnName(column) == removeNonWord(replaceSpaceRuns(column))

\* A column name is given; the server is as it starts and takes no step.
InitNormalize ==
    /\ InitWith(1)
    /\ \E column \in ColumnNames : normalized = <<column>>
    /\ upsertValues = <<>>

\* normalizeColumnName is called on the latest value.
callNormalize ==
    /\ Len(normalized) <= MaxCalls
    /\ normalized' = Append(normalized, normalizeColumnName(normalized[Len(normalized)]))
    /\ UNCHANGED <<schedulerRunning, cronJob, activeTimers, timerSeq, previousStates,
                   source, destExists, destRows, pass, requests, changes, lastStop,
                   upsertValues>>

NextNormalize == callNormalize

\* normalizeColumnName called again and again on its own result, from every
\* column name of up to MaxLen characters.
SpecNormalize == InitNormalize /\ [][NextNormalize]_vars

\* ------------------------------------------- the values of an upsert
MaxColumns == 3     \* columns of a record

\* The values a column of a record can hold: null, the numbers 0 and 1, the
\* empty string and three strings that are not empty.
ColumnValues == {Null, Num("0"), Num("1"), Str(""), Str("a"), Str("0"), Str("null")}

Records == UNION {[1..n -> ColumnValues] : n \in 0..MaxColumns}

\* A record is given; the server is as it starts and takes no step.
InitSerialize ==
    /\ InitWith(1)
    /\ normalized = <<>>
    /\ \E record \in Records : upsertValues = <<record>>

\* Line 139 is evaluated for the record.
serializeRecord ==
    /\ Len(upsertValues) = 1
    /\ upsertValues' = Append(upsertValues, valuesOf(upsertValues[1]))
    /\ UNCHANGED <<schedulerRunning, cronJob, activeTimers, timerSeq, previousStates,
                   source, destExists, destRows, pass, requests, changes, lastStop,
                   normalized>>

NextSerialize == serializeRecord

\* The values of the upsert of every record of up to MaxColumns columns.
SpecSerialize == InitSerialize /\ [][NextSerialize]_vars

\* ============================================================ the claims

\* The pass in slot p has read previousStates[table] at line 183 and found a
\* change, and has not yet written the entry back (lines 165 and 197): it is
\* awaiting the create-table statement or a statement of the batch.
InReadModifyWrite(p) == pass[p].pc \in {"ensure", "apply"}

\* C1: the read-modify-write of a table's previous-state entry is mutually
\* exclusive: no two passes are at the same time between their read of
\* previousStates[table] and their write of the new snapshot.
C1_SnapshotMutualExclusion ==
    \A p, q \in Slots :
        (p # q /\ InReadModifyWrite(p) /\ InReadModifyWrite(q))
            => pass[p].ti # pass[q].ti

\* C2: a statement of a table's batch that fails does not abort the batch: as
\* long as statements of the batch remain to be sent, the pass stays in the
\* batch of that table, whatever the answer to the statement in flight.
C2_RowFailureDoesNotAbortBatch ==
    [][\A p \in Slots :
          (pass[p].pc = "apply" /\ pass[p].pos < Len(pass[p].plan))
              => (pass'[p].pc = "apply" /\ pass'[p].ti = pass[p].ti)]_vars

\* The awaits of the per-table loop.
LoopPcs == {"fetch", "ensure", "apply"}

\* C3: a failure while migrating one table does not end the loop: a pass in
\* the loop stays in the table, goes on to the next table, or, after the last
\* table, goes on to close the source.
C3_TableFailureIsolated ==
    [][\A p \in Slots :
          pass[p].pc \in LoopPcs
              => \/ pass'[p].pc \in LoopPcs /\ pass'[p].ti \in {pass[p].ti, pass[p].ti + 1}
                 \/ pass'[p].pc = "close" /\ pass[p].ti = Len(Tables)]_vars

\* C4: a failed fetch is never thrown to the caller of migrateTable. When the
\* source table holds rows, an empty answer to the fetch is a failed fetch, so:
\* the answer to the fetch of a table that holds rows never ends the pass,
\* whatever snapshot of the table is stored.
C4_FailedFetchNotThrown ==
    [][\A p \in Slots :
          (pass[p].pc = "fetch" /\ source[Tables[pass[p].ti]] # <<>>)
              => InFlight(p)']_vars

\* C5: start requests never leave more than one recurring timer: at most one
\* cron task is active, every active cron task is the one cronJob refers to,
\* and while the scheduler is running exactly one is active.
C5_OneActiveTimer ==
    /\ Cardinality(activeTimers) <= 1
    /\ \A tm \in activeTimers : tm = cronJob
    /\ schedulerRunning => Cardinality(activeTimers) = 1

\* A handler has found the scheduler running at line 222 and has ended, no stop
\* having been served since the first start: the one cron task is the first.
C5_Witness ==
    /\ \E p \in Slots : pass[p].note = "already running"
    /\ requests >= 2
    /\ timerSeq = 1
    /\ activeTimers = {1}

\* C6: a stop request served while the scheduler is running discards every
\* stored snapshot for the first pass after the next start: from the stop until
\* the next pass begins, every table's stored snapshot is empty.
C6_EmptyBaselineAfterStop ==
    lastStop = "stopped" => \A t \in TableNames : previousStates[t] = <<>>

\* C7: a stop request served while the scheduler is idle answers that no
\* scheduler is running and leaves the flag, the timer handle, the cron tasks
\* and the stored snapshots as they are.
C7_StopWhenIdleChangesNothing ==
    [][(stopScheduler /\ ~schedulerRunning)
          => /\ lastStop' = "no scheduler"
             /\ UNCHANGED <<schedulerRunning, cronJob, activeTimers, previousStates>>]_vars

\* A stop request was served while the scheduler was idle and snapshots were
\* stored, and they still are.
C7_Witness ==
    /\ lastStop = "no scheduler"
    /\ ~schedulerRunning
    /\ \E t \in TableNames : previousStates[t] # <<>>

\* The cron callback begins in slot p.
TickBegins(p) == ~InFlight(p) /\ InFlight(p)' /\ pass'[p].kind = "tick"

\* C8: a stop only prevents future ticks: a cron callback begins only while the
\* scheduler is running (so none begins between a stop and the next start), and
\* a stop request leaves every pass in flight exactly where it is, with its
\* table index, its snapshot and its batch.
C8_StopOnlyPreventsFutureTicks ==
    [][/\ \A p \in Slots : TickBegins(p) => schedulerRunning
       /\ stopScheduler => pass' = pass]_vars

\* A stop was served while a cron callback was in flight, no pass has begun
\* since, and the callback has gone on: it has stored the snapshot of the first
\* table in the map the stop had emptied and has reached the last table.
C8_Witness ==
    /\ lastStop = "stopped"
    /\ ~schedulerRunning
    /\ previousStates[TableA] # <<>>
    /\ \E p \in Slots : /\ pass[p].kind = "tick"
                        /\ pass[p].pc \in LoopPcs
                        /\ pass[p].ti = Len(Tables)

\* C9: a table whose fetched snapshot is identical to the stored one gets no
\* statement: the answer to a fetch leaves the destination as it is, and the
\* create-table statement (the first statement of a table) is sent only when
\* the fetched snapshot differs from the stored one.
C9_UnchangedTableNoStatements ==
    [][\A p \in Slots :
          (pass[p].pc = "fetch" /\ pass'[p] # pass[p])
              => /\ destRows' = destRows /\ destExists' = destExists
                 /\ pass'[p].pc = "ensure"
                        => pass'[p].cur # previousStates[Tables[pass[p].ti]]]_vars

\* A pass has found the last table unchanged, with rows in its snapshot, and
\* has gone on to close the source; the destination holds the table's rows.
C9_Witness ==
    \E p \in Slots :
        /\ pass[p].note = "unchanged"
        /\ pass[p].pc = "close"
        /\ previousStates[TableB] # <<>>
        /\ destRows[TableB] # {}

\* One upsert, counted as an insert, per row, in the order of the rows.
insertAll(recs) == [i \in DOMAIN recs |-> upsertStatement(recs[i], "insert")]

\* C10: for a table with no stored snapshot every row of the current snapshot
\* is applied as an insert and no delete is sent: the batch computed at line
\* 124 from an empty stored snapshot is one insert per row, and every statement
\* of such a batch is sent.
C10_FirstSyncInsertsEveryRow ==
    [][\A p \in Slots :
          /\ (pass[p].pc = "ensure" /\ pass'[p] # pass[p]
                  /\ previousStates[Tables[pass[p].ti]] = <<>>)
                => (pass'[p].pc = "apply" /\ pass'[p].plan = insertAll(pass[p].cur))
          /\ (pass[p].pc = "apply" /\ pass[p].plan = insertAll(pass[p].cur)
                  /\ pass[p].pos < Len(pass[p].plan))
                => pass'[p].pc = "apply"]_vars

\* The answer to the fetch of slot p is an empty snapshot: the table is empty,
\* or the query failed (line 92), or the table is a system table (line 84).
FetchesEmpty(p) ==
    /\ pass[p].pc = "fetch"
    /\ \E ok \in BOOLEAN :
          /\ migrateTable(p, ok)
          /\ fetchDataFromAccess(Tables[pass[p].ti], ok) = <<>>

\* C11: when a table with a stored snapshot is fetched as empty, every row of
\* the stored snapshot is deleted: the pass goes on with the statements of the
\* table, or the destination holds no row with the key of a stored row.
C11_EmptyFetchDeletesEveryRow ==
    [][\A p \in Slots :
          (FetchesEmpty(p) /\ previousStates[Tables[pass[p].ti]] # <<>>)
              => \/ pass'[p].pc \in {"ensure", "apply"} /\ pass'[p].ti = pass[p].ti
                 \/ \A x \in destRows'[Tables[pass[p].ti]] :
                        \A k \in KeysOf(previousStates[Tables[pass[p].ti]]) :
                            KeyOf(x) # sqlKey(k)]_vars

\* C12: no failure inside a timer-driven pass is thrown out of the cron
\* callback: no cron callback ends with the promise it returned rejected.
C12_TickNeverRejects ==
    \A p \in Slots : pass[p].note # "rejected"

\* C13: while the scheduler is running, nothing but a stop request deactivates
\* it, however a cron callback ends: the flag, the handle and the cron task
\* stay as they are and the cron task goes on firing; and every cron callback
\* begins at the top, with no connection, awaiting connectPostgres.
C13_FailedTickKeepsScheduler ==
    [][/\ (schedulerRunning /\ ~stopScheduler)
            => /\ schedulerRunning' /\ cronJob' = cronJob /\ activeTimers' = activeTimers
               /\ tickGuard'
       /\ \A p \in Slots :
             TickBegins(p)
                 => pass'[p].pc = "connectPostgres" /\ ~pass'[p].pg /\ ~pass'[p].acc]_vars

\* A cron callback was rejected, and the cron task of the one start so far,
\* still the active one, has fired again: the next callback in the slot is
\* awaiting connectPostgres.
C13_Witness ==
    /\ schedulerRunning
    /\ timerSeq = 1
    /\ activeTimers = {1}
    /\ \E p \in Slots : /\ pass[p].kind = "tick"
                        /\ pass[p].pc = "connectPostgres"
                        /\ pass[p].note = "rejected"

\* The pass in slot p has entered the for loop of lines 215-217 / 253-255.
EnteredLoop(p) == pass[p].pc \in LoopPcs \cup {"close", "end"}

\* C14: every pass that enters the per-table loop reports its end to its
\* observers, whatever happens to a table: a cron callback that has entered the
\* loop ends only with the completion emitted (line 261), and a handler only
\* with an answer to its request (lines 227 and 230).
C14_PassCompleteReported ==
    [][\A p \in Slots :
          (EnteredLoop(p) /\ ~InFlight(p)')
              => IF pass[p].kind = "tick"
                 THEN pass'[p].note = "completed"
                 ELSE pass'[p].note \in {"", "already running", "500"}]_vars

\* C15: the scheduler is idle when the server starts and becomes running only
\* in the last step of a handler of POST /api/migrate whose pass succeeded, the
\* step in which pgClient.end() resolves; a handler that answers 500 leaves the
\* flag, the handle and the cron tasks as they are, so an idle scheduler stays
\* idle with no cron task.
C15_StartOnlyAfterSuccessfulTrigger ==
    /\ ~schedulerRunning /\ cronJob = 0 /\ activeTimers = {}
    /\ [][/\ (~schedulerRunning /\ schedulerRunning')
                => \E p \in Slots : /\ pass[p].kind = "migrate"
                                    /\ pass[p].pc = "end"
                                    /\ ~InFlight(p)'
                                    /\ pass'[p].note = ""
          /\ \A p \in Slots :
                (pass[p].kind = "migrate" /\ ~InFlight(p)' /\ pass'[p].note = "500")
                    => /\ UNCHANGED <<schedulerRunning, cronJob, activeTimers>>
                       /\ ~schedulerRunning => (cronJob' = 0 /\ activeTimers' = {})]_vars

\* Two requests were received; the handler of one has answered 500 and the
\* scheduler stayed idle until the other one succeeded and started it.
C15_Witness ==
    /\ requests = 2
    /\ \E p \in Slots : ~InFlight(p) /\ pass[p].note = "500"
    /\ schedulerRunning
    /\ timerSeq = 1
    /\ activeTimers = {1}

\* C16: normalizeColumnName is idempotent: called on its own result it
\* returns that result.
C16_NormalizeIdempotent ==
    \A i \in 2..(Len(normalized) - 1) : normalized[i + 1] = normalized[i]

\* The name " a-" (white space, a letter, a punctuation mark) was normalized
\* to "_a", which changed it, and "_a" was normalized again.
C16_Witness ==
    /\ Len(normalized) >= 3
    /\ normalized[1] = <<" ", "a", "-">>
    /\ normalized[2] = <<"_", "a">>

\* The reference delta from a stored snapshot to a current one, as a set of
\* statements: a delete for each stored row whose key no current row has, an
\* insert for each current row whose key no stored row has, an update for each
\* current row that differs from a stored row with its key.
referenceDelta(previousRecords, currentRecords) ==
    {deleteStatement(previousRecords[i]) :
        i \in {j \in DOMAIN previousRecords :
                  \A k \in DOMAIN currentRecords :
                      KeyOf(currentRecords[k]) # KeyOf(previousRecords[j])}}
    \cup {upsertStatement(currentRecords[i], "insert") :
        i \in {k \in DOMAIN currentRecords :
                  \A j \in DOMAIN previousRecords :
                      KeyOf(previousRecords[j]) # KeyOf(currentRecords[k])}}
    \cup {upsertStatement(currentRecords[i], "update") :
        i \in {k \in DOMAIN currentRecords :
                  \E j \in DOMAIN previousRecords :
                      /\ KeyOf(previousRecords[j]) = KeyOf(currentRecords[k])
                      /\ previousRecords[j] # currentRecords[k]}}

\* C17: for a current snapshot that is not empty the statements issued are the
\* reference delta: the batch computed at line 124 holds each statement of the
\* reference delta once and nothing else, and every statement of the batch is
\* sent.
C17_StatementsEqualReferenceDelta ==
    [][\A p \in Slots :
          /\ (pass[p].pc = "ensure" /\ pass'[p] # pass[p])
                => LET ref == referenceDelta(previousStates[Tables[pass[p].ti]], pass[p].cur)
                       plan == IF pass'[p].pc = "apply" THEN pass'[p].plan ELSE <<>>
                   IN /\ {plan[i] : i \in DOMAIN plan} = ref
                      /\ Len(plan) = Cardinality(ref)
          /\ (pass[p].pc = "apply" /\ pass'[p] # pass[p]
                  /\ pass[p].pos < Len(pass[p].plan))
                => (pass'[p].pc = "apply" /\ pass'[p].pos = pass[p].pos + 1)]_vars

\* The call of migrateTable of slot p ends in this step: the pass leaves the
\* table, by going on or by ending.
InvocationEnds(p) ==
    /\ pass[p].pc \in LoopPcs
    /\ pass'[p].pc \notin LoopPcs \/ pass'[p].ti # pass[p].ti

\* C18: when a call of migrateTable ends, the stored snapshot of its table is
\* the snapshot it fetched, whether or not it found a change and whatever the
\* answers to its create-table statement and to the statements of its batch.
C18_SnapshotStoredWhenInvocationEnds ==
    [][\A p \in Slots :
          InvocationEnds(p)
              => LET tableName == Tables[pass[p].ti]
                 IN IF pass[p].pc = "fetch"
                    THEN \E ok \in BOOLEAN :
                            /\ migrateTable(p, ok)
                            /\ previousStates'[tableName] = fetchDataFromAccess(tableName, ok)
                    ELSE previousStates'[tableName] = pass[p].cur]_vars

\* C19: a table whose name begins with "~" is not fetched and gets no
\* statement: no pass is ever awaiting its create-table statement or a
\* statement of a batch for it, its stored snapshot stays empty whatever rows
\* it holds, and it is never created or filled in the destination.
C19_SystemTableSkipped ==
    \A t \in TableNames :
        startsWithTilde(t)
            => /\ \A p \in Slots :
                     pass[p].pc \in {"ensure", "apply"} => Tables[pass[p].ti] # t
               /\ previousStates[t] = <<>>
               /\ ~destExists[t]
               /\ destRows[t] = {}

\* A pass has gone past the system table, which holds rows, to the last table,
\* the earlier passes having stored a snapshot of the first table.
C19_Witness ==
    /\ source[TableTmp] # <<>>
    /\ previousStates[TableA] # <<>>
    /\ \E p \in Slots : /\ pass[p].pc = "fetch"
                        /\ Tables[pass[p].ti] = TableB
                        /\ pass[p].note = "unchanged"

C21_NullExactlyForNull ==
    Len(upsertValues) = 2
        => \A i \in DOMAIN upsertValues[1] :
              IF upsertValues[1][i] = Null
              THEN upsertValues[2][i] = SqlNull
              ELSE upsertValues[2][i] = SqlText(toString(upsertValues[1][i]))

\* C22: within one pass the tables are migrated one after another in the
\* order of the list: the table of a pass changes only when the call of
\* migrateTable for the table before it in the list has ended (or, for the
\* first table, when the list has arrived), the pass then awaits the fetch of
\* the next table with nothing left of the table before; and a pass inside the
\* loop is awaiting one call for one table of the list.
C22_TablesStrictlySequential ==
    [][\A p \in Slots :
          /\ (InFlight(p)' /\ pass'[p].ti # pass[p].ti)
                => /\ pass'[p].ti = pass[p].ti + 1
                   /\ pass'[p].pc = "fetch"
                   /\ pass'[p].cur = <<>> /\ pass'[p].plan = <<>>
                   /\ IF pass[p].ti = 0 THEN pass[p].pc = "tables"
                      ELSE pass[p].pc \in LoopPcs
          /\ pass'[p].pc \in LoopPcs => pass'[p].ti \in DOMAIN Tables
          /\ pass'[p].pc = "close" => pass'[p].ti = Len(Tables)]_vars

\* The one pass so far has migrated the first table, whose rows are in the
\* destination, has passed the system table and is sending the batch of the
\* last table, which is not yet in the destination.
C22_Witness ==
    /\ requests = 1
    /\ timerSeq = 0
    /\ destRows[TableA] # {}
    /\ destRows[TableB] = {}
    /\ \E p \in Slots : /\ pass[p].pc = "apply"
                        /\ Tables[pass[p].ti] = TableB

\* C23: for every column name, which has at least one character,
\* normalizeColumnName returns a string that is not empty.
C23_NormalizeNonEmpty ==
    (Len(normalized) >= 2 /\ normalized[1] # <<>>) => normalized[2] # <<>>

\* C26: between the steps of handlers and callbacks the scheduler flag and the
\* timer handle agree: schedulerRunning is true exactly when cronJob is not
\* null.
C26_FlagAgreesWithHandle ==
    schedulerRunning <=> cronJob # 0

\* The scheduler was started, stopped and started again: the flag is set and
\* the handle refers to the second cron task, the only active one.
C26_Witness ==
    /\ schedulerRunning
    /\ timerSeq = 2
    /\ cronJob = 2
    /\ activeTimers = {2}

\* C27: every connection a pass has opened is closed when the pass ends: a
\* pass ends holding no connection, or in the step in which pgClient.end()
\* answers for its last connection, the source being closed already.
C27_ConnectionsClosedAtEnd ==
    [][\A p \in Slots :
          (InFlight(p) /\ ~InFlight(p)')
              => \/ ~pass[p].pg /\ ~pass[p].acc
                 \/ pass[p].pc \in {"end", "endOnly"} /\ ~pass[p].acc]_vars

\* C25: the stored snapshot of a table never runs ahead of the destination: a
\* row whose upsert failed or was not sent is not recorded as synced, so, no
\* pass being in flight, every row of a stored snapshot is in the destination
\* table as its upsert writes it.
C25_SnapshotNotAheadOfDestination ==
    Quiet => \A t \in TableNames :
                \A i \in DOMAIN previousStates[t] :
                    valuesOf(previousStates[t][i]) \in destRows[t]

\* The rows a destination table holds when it is in sync with the rows of a
\* source table: for each row the text of each value, NULL for a null.
inSyncRows(rows) ==
    {[c \in DOMAIN rows[i] |->
         IF rows[i][c] = Null THEN SqlNull ELSE SqlText(toString(rows[i][c]))] :
        i \in DOMAIN rows}

\* Every pass from this state on in which no call fails finds every table
\* unchanged and sends no statement: no pass is in flight, the scheduler is
\* running with its cron task active, and the stored snapshot of every table
\* that is fetched is what a fetch returns.
Settled ==
    /\ Quiet
    /\ schedulerRunning
    /\ activeTimers # {}
    /\ \A t \in TableNames : ~startsWithTilde(t) => previousStates[t] = source[t]

\* C24: when the source stops changing and no call fails, the destination
\* comes to hold exactly the rows of the source, whatever happened before. As a
\* property of finite runs: in a state from which the passes without failure
\* send no statement any more, whatever requests, ticks, stops and failures led
\* to it, every destination table holds exactly the rows of its source table.
C24_DestinationInSyncWhenSettled ==
    Settled => \A t \in TableNames :
                  ~startsWithTilde(t) => destRows[t] = inSyncRows(source[t])

====
